---- MODULE Spec2Model ----
(***************************************************************************)
(* RAMSES ingestion routines of yt/frontends/ramses/io_utils.pyx:          *)
(*   read_amr    - walks the grid-hierarchy section, registers grids;      *)
(*   read_offset - walks the data section, builds the (offset, count)      *)
(*                 tables;                                                 *)
(*   fill_hydro  - seeks to the indexed blocks and decodes the requested   *)
(*                 fields into the decode buffer, then hands the slices to *)
(*                 the octree container.                                   *)
(* Each iteration of a routine's (level, domain) loop is one step of the   *)
(* state machine.                                                          *)
(***************************************************************************)
EXTENDS Integers, Sequences, FiniteSets, TLC

\* ------------------------------------------------------------------ bounds
\* largest grid count / record count a (level, domain) pair declares
MaxCount == 2

\* header values explored
LevelValues == {2}
NdimValues == {1, 2}
CpuValues == {1, 2}
BoundaryValues == {0, 1}
\* headers['nx']: the half-extents (i - 1) / 2 are 0, 1 and 2
HeaderNx == <<1, 3, 5>>
\* the field catalogue of the explored data sections, in on-disk order
Catalogue == <<"a", "b", "c">>
\* name of the file handed to read_offset (f.name)
FileName == "hydro_00001.out00001"

\* ------------------------------------------------------- program constants
INT32_SIZE == 4
INT64_SIZE == 8
DOUBLE_SIZE == 8
\* Fortran unformatted framing: a 4-byte length marker on each side of a record
MARKER_SIZE == 4

VARIABLES
    pc,            \* position of the running routine
    ndim, nlevelmax, ncpu, nboundary,   \* headers
    min_level,
    nvar,
    disk,          \* data section: the (level, domain) pairs in the order written
    fpos,          \* byte cursor of the data-section file
    Nskip,         \* read_offset: number of records of a pair's payload
    ilevel, icpu,  \* loop indices
    offset, level_count,   \* the two tables of read_offset
    fault,         \* the raised YTIllDefinedAMRData, if any
    offset_ev,     \* what the last read_offset iteration did
    ints_read,     \* number of f.read_int calls of read_offset so far
    cpu_list, fields, jumps, buffer, tmp,   \* fill_hydro
    fill_ev,       \* what the last fill_hydro iteration did
    calls,         \* fill_level / fill_level_with_domain calls so far
    numbl, ngridbound,     \* read_amr inputs
    arec,          \* cursor of the grid-hierarchy file, in records
    max_level, buffer_size,
    amr_ev,        \* what the last read_amr iteration did
    adds           \* oct_handler.add calls so far

vars == <<pc, ndim, nlevelmax, ncpu, nboundary, min_level, nvar, disk, fpos,
          Nskip, ilevel, icpu, offset, level_count, fault, offset_ev, ints_read,
          cpu_list, fields, jumps, buffer, tmp, fill_ev, calls,
          numbl, ngridbound, arec, max_level, buffer_size, amr_ev, adds>>

hdrVars == <<ndim, nlevelmax, ncpu, nboundary, min_level, nvar, disk>>
offsetVars == <<fpos, Nskip, offset, level_count, fault, offset_ev, ints_read>>
fillVars == <<cpu_list, fields, jumps, buffer, tmp, fill_ev, calls>>
amrVars == <<numbl, ngridbound, arec, max_level, buffer_size, amr_ev, adds>>

\* ----------------------------------------------------------------- helpers
Range(s) == {s[k] : k \in DOMAIN s}

SetMax(S) == CHOOSE y \in S : \A z \in S : z <= y

Max2(a, b) == IF a >= b THEN a ELSE b

None == [op |-> "none"]
NoFault == [raised |-> FALSE]

\* ncpu_and_bound = nboundary + ncpu
ncpu_and_bound == nboundary + ncpu
\* twotondim = 2**ndim
twotondim == 2 ^ ndim

Levels == 0 .. (nlevelmax - 1)
Domains == 0 .. (ncpu_and_bound - 1)
Blocks == Levels \X Domains

\* ----------------------------------------- the data section, as laid on disk
\* a record holding one 32-bit integer
IntRecordSize == MARKER_SIZE + INT32_SIZE + MARKER_SIZE
\* a record holding n doubles
VectorRecordSize(n) == MARKER_SIZE + n * DOUBLE_SIZE + MARKER_SIZE

\* position of the pair (lev, dom) in the order written, from 1
BlockIndex(blk) == blk[1] * ncpu_and_bound + blk[2] + 1
BlockOf(b) == <<(b - 1) \div ncpu_and_bound, (b - 1) % ncpu_and_bound>>

\* records in the payload of a present pair: every sub-cell's full variable set
PayloadRecords == twotondim * nvar

\* bytes of the payload of a pair that declares n records per vector
PayloadBytes(n) == IF n = 0 THEN 0 ELSE PayloadRecords * VectorRecordSize(n)

\* the pairs in the order written: declared level id, declared record count,
\* byte position of the header (start) and of the payload (first .. last)
RECURSIVE WriteFrom(_, _, _, _, _)
WriteFrom(cnt, bad, b, p, acc) ==
    IF b > nlevelmax * ncpu_and_bound THEN acc
    ELSE LET blk == BlockOf(b)
             n == cnt[blk]
             first == p + 2 * IntRecordSize
         IN WriteFrom(cnt, bad, b + 1, first + PayloadBytes(n),
               Append(acc, [blk |-> blk,
                            ilevel |-> IF blk \in bad THEN blk[1] + 2 ELSE blk[1] + 1,
                            ncache |-> n,
                            start |-> p, first |-> first,
                            last |-> first + PayloadBytes(n),
                            size |-> VectorRecordSize(n)]))

\* the data section in which pair blk declares cnt[blk] records and level id
\* lev + 1, the pairs of bad being mislabelled
DataSection(cnt, bad) == WriteFrom(cnt, bad, 1, 0, <<>>)

Hdr(blk) == disk[BlockIndex(blk)]
\* byte position of the header of the pair blk, of its payload, and of its end
BlockStart(blk) == Hdr(blk).start
PayloadStart(blk) == Hdr(blk).first
PayloadEnd(blk) == Hdr(blk).last

\* byte position of record r of the payload of blk
RecordStart(blk, r) == PayloadStart(blk) + r * VectorRecordSize(Hdr(blk).ncache)

\* the doubles stored in record r of the pair blk: row c holds a value that
\* identifies (level, domain, record, row)
DiskValue(blk, r, c) == <<blk[1], blk[2], r, c>>
DiskRecord(blk, r) == [c \in 0 .. (Hdr(blk).ncache - 1) |-> DiskValue(blk, r, c)]

\* the header integers that start at byte p: <<position of the pair, 0 or 1>>
IntsAt(p) ==
    {x \in (DOMAIN disk) \X {0, 1} : disk[x[1]].start + x[2] * IntRecordSize = p}

\* f.read_int() with the cursor at byte p (defined when IntsAt(p) # {})
read_int(p) ==
    LET x == CHOOSE y \in IntsAt(p) : TRUE
    IN IF x[2] = 0 THEN disk[x[1]].ilevel ELSE disk[x[1]].ncache

\* the payload records that start at byte p: <<pair, record number>>
RecordsAt(p) ==
    LET hit == {k \in DOMAIN disk : /\ disk[k].first <= p /\ p < disk[k].last
                                    /\ (p - disk[k].first) % disk[k].size = 0}
    IN {<<disk[k].blk, (p - disk[k].first) \div disk[k].size>> : k \in hit}

\* ---------------------------------------------------------------- skip_len
\* cdef inline int skip_len(int Nskip, int record_len): the operands and the
\* result are C ints. IntUnits is the first value an int cannot hold, counted
\* in units of DOUBLE_SIZE bytes
IntUnits == 2 * ((2 ^ 30) \div DOUBLE_SIZE)
\* the exact product Nskip * (record_len * DOUBLE_SIZE + INT64_SIZE), in units
\* of DOUBLE_SIZE bytes
SkipUnits(Nskip_, record_len) ==
    Nskip_ * (record_len + INT64_SIZE \div DOUBLE_SIZE)
\* the two's complement int holding u units, in units
WrapUnits(u) ==
    LET m == u % (2 * IntUnits) IN IF m >= IntUnits THEN m - 2 * IntUnits ELSE m
\* return Nskip * (record_len * DOUBLE_SIZE + INT64_SIZE), in bytes; when the
\* product does not fit an int this is the wrapped value
skip_len(Nskip_, record_len) ==
    IF SkipUnits(Nskip_, record_len) < IntUnits
    THEN Nskip_ * (record_len * DOUBLE_SIZE + INT64_SIZE)
    ELSE DOUBLE_SIZE * WrapUnits(SkipUnits(Nskip_, record_len))
\* what the build can pass on to f.seek, in units of DOUBLE_SIZE bytes: signed
\* overflow is undefined, the product is wrapped to an int or kept exact in a
\* wider register
SkipLenOutcomes(Nskip_, record_len) ==
    IF SkipUnits(Nskip_, record_len) < IntUnits
    THEN {skip_len(Nskip_, record_len) \div DOUBLE_SIZE}
    ELSE {skip_len(Nskip_, record_len) \div DOUBLE_SIZE, SkipUnits(Nskip_, record_len)}

\* ------------------------------------------------------------- read_offset
\* n_levels = nlevelmax - min_level
n_levels == nlevelmax - min_level
TableKeys == Domains \X (0 .. (n_levels - 1))

\* if Nskip == -1: Nskip = twotondim * nvar
DefaultNskip(NskipArg) == IF NskipArg = -1 THEN twotondim * nvar ELSE NskipArg

\* faulty variant: the zero-count test is missing
BlockAbsent_mut(file_ncache) == FALSE

\* faulty variant: the test is for a negative count
BlockAbsent_neg(file_ncache) == file_ncache < 0

\* if file_ncache == 0: continue
BlockAbsent(file_ncache) == file_ncache = 0

\* faulty variant: the declared level id is compared with ilevel
LevelMismatch_mut(file_ilevel, lev) == file_ilevel # lev

\* if file_ilevel != ilevel+1: raise
LevelMismatch(file_ilevel, lev) == file_ilevel # lev + 1

\* the arguments of the raised YTIllDefinedAMRData
RaisedFault(file_ilevel, lev) ==
    [raised |-> TRUE, name |-> FileName, level_read |-> file_ilevel, expected |-> lev]

\* faulty variant: the entry is written whatever the level
RecordsEntry_mut(lev) == TRUE

\* if ilevel >= min_level: the entry (icpu, ilevel - min_level) is written
RecordsEntry(lev) == lev >= min_level

\* the column of the tables written for level lev
TableColumn(lev) == lev - min_level

\* position of the loops after the iteration (lev, dom): <<level, domain>>
NextPair(lev, dom) ==
    IF dom + 1 < ncpu_and_bound THEN <<lev, dom + 1>> ELSE <<lev + 1, 0>>

\* entry of read_offset: locals and the two tables
read_offset_begin ==
    /\ pc = "start"
    /\ \E NskipArg \in {-1, PayloadRecords} :
           Nskip' = DefaultNskip(NskipArg)
    /\ offset' = [k \in TableKeys |-> -1]
    /\ level_count' = [k \in TableKeys |-> 0]
    /\ ilevel' = 0
    /\ icpu' = 0
    /\ ints_read' = 0
    /\ pc' = "read_offset"
    /\ UNCHANGED <<hdrVars, fpos, fault, offset_ev, fillVars, amrVars>>

\* one iteration of the (ilevel, icpu) loop of read_offset
read_offset_iter ==
    /\ pc = "read_offset"
    /\ LET p1 == fpos + 2 * IntRecordSize
           nxt == NextPair(ilevel, icpu)
           ev == [op |-> "iter", lev |-> ilevel, dom |-> icpu, pos0 |-> fpos,
                  file_ilevel |-> 0, file_ncache |-> 0,
                  ints |-> 2, seeks |-> <<>>, wrote |-> {}]
       IN IF IntsAt(fpos) = {} \/ IntsAt(fpos + IntRecordSize) = {}
          THEN /\ pc' = "io_fault"
               /\ offset_ev' = [ev EXCEPT !.op = "io_fault", !.ints = 0]
               /\ UNCHANGED <<fpos, offset, level_count, fault, ilevel, icpu, ints_read>>
          ELSE LET file_ilevel == read_int(fpos)
                   file_ncache == read_int(fpos + IntRecordSize)
                   evr == [ev EXCEPT !.file_ilevel = file_ilevel,
                                     !.file_ncache = file_ncache]
               IN IF BlockAbsent(file_ncache)
                  THEN /\ fpos' = p1
                       /\ ints_read' = ints_read + 2
                       /\ offset_ev' = [evr EXCEPT !.op = "absent"]
                       /\ UNCHANGED <<offset, level_count, fault>>
                       /\ ilevel' = nxt[1]
                       /\ icpu' = nxt[2]
                       /\ pc' = IF nxt[1] < nlevelmax THEN "read_offset" ELSE "offset_done"
                  ELSE IF LevelMismatch(file_ilevel, ilevel)
                  THEN /\ fpos' = p1
                       /\ ints_read' = ints_read + 2
                       /\ fault' = RaisedFault(file_ilevel, ilevel)
                       /\ offset_ev' = [evr EXCEPT !.op = "raise"]
                       /\ pc' = "raised"
                       /\ UNCHANGED <<offset, level_count, ilevel, icpu>>
                  ELSE LET key == <<icpu, TableColumn(ilevel)>>
                           d == skip_len(Nskip, file_ncache)
                           evs == [evr EXCEPT !.op = "present",
                                              !.seeks = <<[arg |-> d, whence |-> 1]>>]
                       IN /\ IF RecordsEntry(ilevel)
                             THEN /\ offset' = [offset EXCEPT ![key] = p1]
                                  /\ level_count' = [level_count EXCEPT ![key] = file_ncache]
                                  /\ offset_ev' = [evs EXCEPT !.wrote = {key}]
                             ELSE /\ UNCHANGED <<offset, level_count>>
                                  /\ offset_ev' = evs
                          /\ fpos' = p1 + d
                          /\ ints_read' = ints_read + 2
                          /\ UNCHANGED fault
                          /\ ilevel' = nxt[1]
                          /\ icpu' = nxt[2]
                          /\ pc' = IF nxt[1] < nlevelmax THEN "read_offset" ELSE "offset_done"
    /\ UNCHANGED <<hdrVars, Nskip, fillVars, amrVars>>

\* f.seek(skip_len(Nskip, file_ncache), 1) for the header of a present pair
\* whose payload may exceed the int range; offset_ev holds the header read
\* and the Nskip argument, then the distance passed to f.seek (in units of
\* DOUBLE_SIZE bytes)
seek_past_payload ==
    /\ pc = "seek_start"
    /\ Nskip' = DefaultNskip(offset_ev.NskipArg)
    /\ \E u \in SkipLenOutcomes(DefaultNskip(offset_ev.NskipArg), offset_ev.file_ncache) :
          offset_ev' = [op |-> "seek", NskipArg |-> offset_ev.NskipArg,
                        file_ncache |-> offset_ev.file_ncache,
                        units |-> u, whence |-> 1]
    /\ pc' = "seek_done"
    /\ UNCHANGED <<hdrVars, fpos, offset, level_count, fault, ilevel, icpu,
                   ints_read, fillVars, amrVars>>

\* -------------------------------------------------------------- fill_hydro
\* nlevels = offsets.shape[1]
nlevels == n_levels
\* ncpu_selected = len(cpu_enumerator)
ncpu_selected == Len(cpu_list)
\* nfields_selected = len(fields)
nfields_selected == Len(fields)

\* the loop over all_fields that fills jumps[0 .. nfields_selected]
RECURSIVE JumpScan(_, _, _, _, _, _)
JumpScan(all_fields, fl, i, j, jump_len, jm) ==
    IF i > Len(all_fields) THEN [jm EXCEPT ![j] = jump_len]
    ELSE IF all_fields[i] \in Range(fl)
         THEN JumpScan(all_fields, fl, i + 1, j + 1, 0, [jm EXCEPT ![j] = jump_len])
         ELSE JumpScan(all_fields, fl, i + 1, j, jump_len + 1, jm)

\* faulty variant: the scan walks the requested list instead of the catalogue
BuildJumps_mut(all_fields, fl) ==
    JumpScan(fl, all_fields, 1, 0, 0, [k \in 0 .. Len(fl) |-> 0])

\* jumps = np.zeros(nfields_selected + 1), then the scan
BuildJumps(all_fields, fl) ==
    JumpScan(all_fields, fl, 1, 0, 0, [k \in 0 .. Len(fl) |-> 0])

\* first_field_index = jumps[0]
first_field_index == jumps[0]

\* level_count.max()
LevelCountMax == SetMax({level_count[k] : k \in DOMAIN level_count})

\* contents of freshly allocated memory (np.empty): any double; explored are
\* a value that no record holds and a value that a record holds
UninitValues == {<<-1, -1, -1, -1>>, <<0, 0, 0, 0>>}

\* faulty variant: the buffer has a slot for every field of the catalogue
NewBuffer_mut(nf, g) ==
    [x \in (0 .. (twotondim - 1)) \X (0 .. (nvar - 1)) |->
        [c \in 0 .. (LevelCountMax - 1) |-> g]]

\* buffer = np.empty((level_count.max(), twotondim, nfields_selected)), every
\* cell holding g; buffer[<<i, j>>][c] stands for buffer[c, i, j]
NewBuffer(nf, g) ==
    [x \in (0 .. (twotondim - 1)) \X (0 .. (nf - 1)) |->
        [c \in 0 .. (LevelCountMax - 1) |-> g]]

\* faulty variant: the two tests are missing
BlockSkipped_mut(nc, off) == FALSE

\* if nc == 0: continue / if offset == -1: continue
BlockSkipped(nc, off) == nc = 0 \/ off = -1

\* faulty variant: the leading unrequested fields are not skipped
FirstSeek_mut(off, nc) == off

\* f.seek(offset + skip_len(first_field_index, nc))
FirstSeek(off, nc) == off + skip_len(first_field_index, nc)

\* faulty variant: a skip of one field is not applied
SeekNeeded_mut(jump_len) == jump_len > 1

\* if jump_len > 0: f.seek(skip_len(jump_len, nc), 1)
SeekNeeded(jump_len) == jump_len > 0

\* faulty variant: every vector of a sub-cell goes to the slot of the first field
StoreVector_mut(buf, i, j, rec) ==
    [buf EXCEPT ![<<i, 0>>] = [c \in DOMAIN @ |-> IF c \in DOMAIN rec THEN rec[c] ELSE @[c]]]

\* f.read_vector_inplace('d', &buffer[0, i, j]): the record read goes to the
\* rows 0, 1, ... of column (i, j)
StoreVector(buf, i, j, rec) ==
    [buf EXCEPT ![<<i, j>>] = [c \in DOMAIN @ |-> IF c \in DOMAIN rec THEN rec[c] ELSE @[c]]]

\* the body of the loops over sub-cells i and selected fields j, the loops
\* flattened: step s is (i, j) = (s \div nfields_selected, s % nfields_selected)
DecodeStep(s, st, nc) ==
    IF ~st.ok THEN st
    ELSE LET i == s \div nfields_selected
             j == s % nfields_selected
             jl1 == st.jump_len + jumps[j]
             sk == SeekNeeded(jl1)
             d == skip_len(jl1, nc)
             p == IF sk THEN st.pos + d ELSE st.pos
             jl2 == IF sk THEN 0 ELSE jl1
             seeks2 == IF sk THEN Append(st.seeks, [arg |-> d, whence |-> 1]) ELSE st.seeks
             srcs == RecordsAt(p)
         IN IF srcs = {}
            THEN [st EXCEPT !.ok = FALSE, !.pos = p, !.seeks = seeks2]
            ELSE LET src == CHOOSE y \in srcs : TRUE
                     rec == DiskRecord(src[1], src[2])
                     jl3 == IF j = nfields_selected - 1
                            THEN jl2 + jumps[nfields_selected] ELSE jl2
                 IN [ok |-> TRUE,
                     pos |-> p + VectorRecordSize(Hdr(src[1]).ncache),
                     jump_len |-> jl3,
                     buf |-> StoreVector(st.buf, i, j, rec),
                     seeks |-> seeks2,
                     reads |-> Append(st.reads,
                                 [i |-> i, j |-> j, pos |-> p, blk |-> src[1], rec |-> src[2],
                                  jump_len |-> jl1])]

\* decode of one present block: the absolute seek, then the two loops
DecodeBlock(off, nc) ==
    LET p0 == FirstSeek(off, nc)
        N == twotondim * nfields_selected
        D[s \in 0 .. N] ==
            IF s = 0
            THEN [ok |-> TRUE, pos |-> p0, jump_len |-> -first_field_index, buf |-> buffer,
                  seeks |-> <<[arg |-> p0, whence |-> 0]>>, reads |-> <<>>]
            ELSE DecodeStep(s - 1, D[s - 1], nc)
    IN D[N]

\* the buffer slot aliased under the name fl[k]: tmp[field] = buffer[:, :, i]
SliceIndex(fl, k) == k - 1

\* for i, field in enumerate(fields): tmp[field] = buffer[:, :, i]
\* (a view: the dictionary holds the index of the aliased buffer slot)
AliasSlices(fl) ==
    [f \in Range(fl) |->
        SliceIndex(fl, CHOOSE k \in DOMAIN fl :
                          fl[k] = f /\ \A m \in DOMAIN fl : fl[m] = f => m <= k)]

\* if ncpu_selected > 1
UseDomainFill(n) == n > 1

\* faulty variant: the 0-based domain index is passed
DomainArg_mut(dom) == dom

\* domain=icpu+1
DomainArg(dom) == dom + 1

\* the call that hands a decoded block to the octree container
Handoff(lev, dom) ==
    IF UseDomainFill(ncpu_selected)
    THEN [fn |-> "fill_level_with_domain", level |-> lev, domain |-> DomainArg(dom), dom |-> dom]
    ELSE [fn |-> "fill_level", level |-> lev, domain |-> -1, dom |-> dom]

\* duplicate-free lists over the set S
RECURSIVE ListsOver(_)
ListsOver(S) ==
    IF S = {} THEN {<<>>}
    ELSE {<<>>} \cup UNION {{<<x>> \o t : t \in ListsOver(S \ {x})} : x \in S}

\* requested fields: every non-empty duplicate-free list over the catalogue
FieldLists == ListsOver(Range(Catalogue)) \ {<<>>}
\* domain lists: non-empty, increasing
DomainLists ==
    {l \in ListsOver(Domains) \ {<<>>} : \A k \in 1 .. (Len(l) - 1) : l[k] < l[k + 1]}

\* entry of fill_hydro, called with the tables read_offset returned
fill_hydro_begin ==
    /\ pc = "offset_done"
    /\ \E cl \in DomainLists, fl \in FieldLists, g \in UninitValues :
          /\ cpu_list' = cl
          /\ fields' = fl
          /\ jumps' = BuildJumps(Catalogue, fl)
          /\ buffer' = NewBuffer(Len(fl), g)
    /\ ilevel' = 0
    /\ icpu' = 0
    /\ tmp' = <<>>
    /\ pc' = "fill_hydro"
    /\ UNCHANGED <<hdrVars, offsetVars, fill_ev, calls, amrVars>>

\* position of the loops after the iteration (lev, ii) of fill_hydro
NextFill(lev, ii) ==
    IF ii + 1 < ncpu_selected THEN <<lev, ii + 1>> ELSE <<lev + 1, 0>>

\* one iteration of the (ilevel, ii) loop of fill_hydro; icpu holds ii
fill_hydro_iter ==
    /\ pc = "fill_hydro"
    /\ LET dom == cpu_list[icpu + 1]
           nc == level_count[<<dom, ilevel>>]
           off == offset[<<dom, ilevel>>]
           nxt == NextFill(ilevel, icpu)
           ev == [op |-> "skip", lev |-> ilevel, dom |-> dom, nc |-> nc, off |-> off,
                  pos0 |-> fpos, seeks |-> <<>>, reads |-> <<>>]
       IN IF BlockSkipped(nc, off)
          THEN /\ fill_ev' = ev
               /\ UNCHANGED <<fpos, buffer, tmp, calls>>
               /\ ilevel' = nxt[1]
               /\ icpu' = nxt[2]
               /\ pc' = IF nxt[1] < nlevels THEN "fill_hydro" ELSE "fill_done"
          ELSE LET st == DecodeBlock(off, nc)
               IN /\ fpos' = st.pos
                  /\ buffer' = st.buf
                  /\ IF st.ok
                     THEN /\ fill_ev' = [ev EXCEPT !.op = "block", !.seeks = st.seeks,
                                                   !.reads = st.reads]
                          /\ tmp' = AliasSlices(fields)
                          /\ calls' = Append(calls, Handoff(ilevel, dom))
                          /\ ilevel' = nxt[1]
                          /\ icpu' = nxt[2]
                          /\ pc' = IF nxt[1] < nlevels THEN "fill_hydro" ELSE "fill_done"
                     ELSE /\ fill_ev' = [ev EXCEPT !.op = "io_fault", !.seeks = st.seeks,
                                                   !.reads = st.reads]
                          /\ pc' = "io_fault"
                          /\ UNCHANGED <<tmp, calls, ilevel, icpu>>
    /\ UNCHANGED <<hdrVars, Nskip, offset, level_count, fault, offset_ev, ints_read,
                   cpu_list, fields, jumps, amrVars>>

\* ---------------------------------------------------------------- read_amr
\* ng = numbl[ilevel, icpu] for a real domain, else
\* ngridbound[icpu - ncpu + nboundary*ilevel]
GridCount(lev, dom) ==
    IF dom < ncpu THEN numbl[<<lev, dom>>]
    ELSE ngridbound[dom - ncpu + nboundary * lev]

\* the grid-hierarchy section, as laid on disk: a pair with a non-zero grid
\* count holds 3 linkage records, 3 coordinate vectors and
\* 1 + 2 ndim + 3 2^ndim metadata records; an empty pair holds nothing
LinkRecords == 3
CoordRecords == 3
MetaRecords == 1 + 2 * ndim + 3 * (2 ^ ndim)
GridBlockRecords == LinkRecords + CoordRecords + MetaRecords

\* number of records written before the pair number b (in loop order, from 0)
RECURSIVE AmrRecordsBefore(_)
AmrRecordsBefore(b) ==
    IF b = 0 THEN 0
    ELSE LET blk == <<(b - 1) \div ncpu_and_bound, (b - 1) % ncpu_and_bound>>
         IN AmrRecordsBefore(b - 1)
            + (IF GridCount(blk[1], blk[2]) = 0 THEN 0 ELSE GridBlockRecords)

\* record index of the first record of the pair blk, and of the record after it
AmrBlockFirst(blk) == AmrRecordsBefore(blk[1] * ncpu_and_bound + blk[2])
AmrBlockEnd(blk) == AmrRecordsBefore(blk[1] * ncpu_and_bound + blk[2] + 1)

\* the coordinate vectors that are record number k: <<pair, axis>>
CoordsAt(k) ==
    {x \in Blocks \X (0 .. (CoordRecords - 1)) :
        /\ GridCount(x[1][1], x[1][2]) > 0
        /\ AmrBlockFirst(x[1]) + LinkRecords + x[2] = k}

\* coordinate of grid g of the pair blk along axis, as stored
DiskCoord(blk, axis, g) == 100 * (blk[1] * ncpu_and_bound + blk[2]) + 10 * axis + g + 50

\* nx, ny, nz = (((i-1.0)/2.0) for i in headers['nx'])
HalfExtent(axis) == (HeaderNx[axis + 1] - 1) \div 2

\* faulty variant: one of the three per-cell maps is not counted
AmrSkipLen_mut == 1 + 2 * ndim + 2 ^ ndim + 2 ^ ndim

\* skip_len = 1 + 2*ndim + 2**ndim + 2**ndim + 2**ndim
AmrSkipLen == 1 + 2 * ndim + 2 ^ ndim + 2 ^ ndim + 2 ^ ndim

\* faulty variant: the empty pair is not skipped
GridsAbsent_mut(ng) == ng < 0

\* if ng == 0: continue
GridsAbsent(ng) == ng = 0

\* if ng > buffer_size: buffer_size = ng
GrownBufferSize(ng, size) == IF ng > size THEN ng ELSE size

\* if ilevel >= min_level: oct_handler.add(...)
AddsGrids(lev) == lev >= min_level

\* faulty variant: the level is tracked whatever add returned
NewMaxLevel_mut(n, lev, ml) == Max2(lev - min_level, ml)

\* if n > 0: max_level = max(ilevel - min_level, max_level)
NewMaxLevel(n, lev, ml) == IF n > 0 THEN Max2(lev - min_level, ml) ELSE ml

\* entry of read_amr
read_amr_begin ==
    /\ pc = "amr_start"
    /\ buffer_size' = 0
    /\ max_level' = 0
    /\ ilevel' = 0
    /\ icpu' = 0
    /\ pc' = "read_amr"
    /\ UNCHANGED <<hdrVars, offsetVars, fillVars, numbl, ngridbound, arec, amr_ev, adds>>

\* one iteration of the (ilevel, icpu) loop of read_amr
read_amr_iter ==
    /\ pc = "read_amr"
    /\ LET ng == GridCount(ilevel, icpu)
           nxt == NextPair(ilevel, icpu)
           r0 == arec + 3
           ev == [op |-> "empty", lev |-> ilevel, dom |-> icpu, ng |-> ng, rec0 |-> arec,
                  skipped |-> 0, vectors |-> 0, add_called |-> FALSE, positive |-> FALSE,
                  pos |-> <<>>, ops |-> <<>>]
       IN IF GridsAbsent(ng)
          THEN /\ amr_ev' = ev
               /\ UNCHANGED <<arec, buffer_size, max_level, adds>>
               /\ ilevel' = nxt[1]
               /\ icpu' = nxt[2]
               /\ pc' = IF nxt[1] < nlevelmax THEN "read_amr" ELSE "amr_done"
          ELSE IF \E a \in 0 .. 2 : CoordsAt(r0 + a) = {}
          THEN /\ amr_ev' = [ev EXCEPT !.op = "io_fault", !.skipped = 3,
                                       !.ops = <<[op |-> "skip", n |-> 3]>>]
               /\ arec' = r0
               /\ pc' = "io_fault"
               /\ UNCHANGED <<buffer_size, max_level, adds, ilevel, icpu>>
          ELSE LET src == [a \in 0 .. 2 |-> CHOOSE x \in CoordsAt(r0 + a) : TRUE]
                   pos == [g \in 0 .. (ng - 1) |->
                             [a \in 0 .. 2 |->
                                 DiskCoord(src[a][1], src[a][2], g) - HalfExtent(a)]]
                   evb == [ev EXCEPT !.op = "block", !.skipped = 3 + AmrSkipLen,
                                     !.vectors = 3, !.pos = pos,
                                     !.ops = <<[op |-> "skip", n |-> 3],
                                               [op |-> "read_vector", n |-> r0],
                                               [op |-> "read_vector", n |-> r0 + 1],
                                               [op |-> "read_vector", n |-> r0 + 2],
                                               [op |-> "skip", n |-> AmrSkipLen]>>]
               IN /\ arec' = r0 + 3 + AmrSkipLen
                  /\ buffer_size' = GrownBufferSize(ng, buffer_size)
                  /\ IF AddsGrids(ilevel)
                     THEN \E n \in 0 .. ng :
                            /\ max_level' = NewMaxLevel(n, ilevel, max_level)
                            /\ adds' = Append(adds, [domain |-> icpu + 1,
                                                     level |-> ilevel - min_level,
                                                     ng |-> ng, positive |-> n > 0,
                                                     pos |-> pos])
                            /\ amr_ev' = [evb EXCEPT !.add_called = TRUE, !.positive = n > 0]
                     ELSE /\ UNCHANGED <<max_level, adds>>
                          /\ amr_ev' = evb
                  /\ ilevel' = nxt[1]
                  /\ icpu' = nxt[2]
                  /\ pc' = IF nxt[1] < nlevelmax THEN "read_amr" ELSE "amr_done"
    /\ UNCHANGED <<hdrVars, offsetVars, fillVars, numbl, ngridbound>>

\* ---------------------------------------------------------- specifications
InitOffsetIdle ==
    /\ Nskip = 0 /\ fpos = 0
    /\ offset = <<>> /\ level_count = <<>>
    /\ fault = NoFault /\ offset_ev = None /\ ints_read = 0

InitFillIdle ==
    /\ cpu_list = <<>> /\ fields = <<>> /\ jumps = <<>> /\ buffer = <<>> /\ tmp = <<>>
    /\ fill_ev = None /\ calls = <<>>

InitAmrIdle ==
    /\ numbl = <<>> /\ ngridbound = <<>> /\ arec = 0
    /\ max_level = 0 /\ buffer_size = 0 /\ amr_ev = None /\ adds = <<>>

\* read_offset, then fill_hydro, on a well-formed data section
Init ==
    /\ pc = "start"
    /\ ndim \in NdimValues
    /\ nlevelmax \in LevelValues
    /\ ncpu \in CpuValues
    /\ nboundary = 0
    /\ min_level \in 0 .. (nlevelmax - 1)
    /\ nvar = Len(Catalogue)
    /\ \E cnt \in [Blocks -> 0 .. MaxCount] : disk = DataSection(cnt, {})
    /\ ilevel = 0 /\ icpu = 0
    /\ InitOffsetIdle /\ InitFillIdle /\ InitAmrIdle

Next == read_offset_begin \/ read_offset_iter \/ fill_hydro_begin \/ fill_hydro_iter

Spec == Init /\ [][Next]_vars

\* read_offset on a data section in which at most one pair is mislabelled
InitOffset ==
    /\ pc = "start"
    /\ ndim \in NdimValues
    /\ nlevelmax \in LevelValues
    /\ ncpu \in CpuValues
    /\ nboundary \in {b \in BoundaryValues : ncpu + b <= 2}
    /\ min_level \in 0 .. (nlevelmax - 1)
    /\ nvar = Len(Catalogue)
    /\ \E cnt \in [Blocks -> 0 .. MaxCount], bad \in {{}} \cup {{blk} : blk \in Blocks} :
           disk = DataSection(cnt, bad)
    /\ ilevel = 0 /\ icpu = 0
    /\ InitOffsetIdle /\ InitFillIdle /\ InitAmrIdle

NextOffset == read_offset_begin \/ read_offset_iter

SpecOffset == InitOffset /\ [][NextOffset]_vars

\* read_amr on a grid-hierarchy section
InitAmr ==
    /\ pc = "amr_start"
    /\ ndim \in NdimValues
    /\ nlevelmax \in LevelValues
    /\ ncpu \in CpuValues
    /\ nboundary \in {b \in BoundaryValues : ncpu + b <= 2}
    /\ min_level \in 0 .. nlevelmax
    /\ nvar = Len(Catalogue)
    /\ disk = <<>>
    /\ ilevel = 0 /\ icpu = 0
    /\ InitOffsetIdle /\ InitFillIdle
    /\ numbl \in [Levels \X (0 .. (ncpu - 1)) -> 0 .. MaxCount]
    /\ ngridbound \in [0 .. (nboundary * nlevelmax - 1) -> 0 .. MaxCount]
    /\ arec = 0 /\ max_level = 0 /\ buffer_size = 0 /\ amr_ev = None /\ adds = <<>>

NextAmr == read_amr_begin \/ read_amr_iter

SpecAmr == InitAmr /\ [][NextAmr]_vars

\* the relative seek of read_offset alone, for declared record counts and
\* Nskip arguments up to payloads beyond the int range
SeekCounts == {1, 2, 3, 1000, 2 ^ 20, 22369620, 22369621, 2 ^ 25, 2 ^ 26, 2 ^ 27}
SeekSkipArgs == {-1, 1, 4, 12}

InitSeek ==
    /\ pc = "seek_start"
    /\ ndim \in NdimValues
    /\ nlevelmax \in LevelValues
    /\ ncpu = 1
    /\ nboundary = 0
    /\ min_level = 0
    /\ nvar = Len(Catalogue)
    /\ disk = <<>>
    /\ ilevel = 0 /\ icpu = 0
    /\ Nskip = 0 /\ fpos = 0
    /\ offset = <<>> /\ level_count = <<>>
    /\ fault = NoFault /\ ints_read = 0
    /\ \E c \in SeekCounts, a \in SeekSkipArgs :
          offset_ev = [op |-> "header", NskipArg |-> a, file_ncache |-> c]
    /\ InitFillIdle /\ InitAmrIdle

NextSeek == seek_past_payload

SpecSeek == InitSeek /\ [][NextSeek]_vars

\* ------------------------------------------------------------------ claims
\* 0-based position of field f in the catalogue: its on-disk index
CatIndex(f) == (CHOOSE k \in DOMAIN Catalogue : Catalogue[k] = f) - 1

\* the pair decoded by the last fill_hydro iteration
FillBlock == <<fill_ev.lev + min_level, fill_ev.dom>>
\* the pair visited by the last read_offset iteration
OffsetBlock == <<offset_ev.lev, offset_ev.dom>>
\* the pair visited by the last read_amr iteration
AmrBlock == <<amr_ev.lev, amr_ev.dom>>

\* C1: after every handoff, the slice aliased under the name F holds, in its
\* first record_count rows and for every sub-cell, the on-disk values of
\* field F of the decoded pair, whatever the order of the requested list.
C1_SliceHoldsNamedField ==
    fill_ev.op = "block" =>
        \A f \in DOMAIN tmp : \A i \in 0 .. (twotondim - 1) : \A c \in 0 .. (fill_ev.nc - 1) :
            buffer[<<i, tmp[f]>>][c] = DiskValue(FillBlock, i * nvar + CatIndex(f), c)

\* C2 as stated: an iteration raises the fault if and only if the declared
\* level id of the pair it visits differs from current_level + 1, whatever the
\* declared record count.
C2_RaiseIffMismatch ==
    offset_ev.op \in {"absent", "present", "raise"} =>
        ((offset_ev.op = "raise") <=> (Hdr(OffsetBlock).ilevel # offset_ev.lev + 1))

\* C2 amended: an iteration raises the fault if and only if the pair it visits
\* declares a non-zero record count and a level id different from
\* current_level + 1; the pass ends raised exactly when the fault was raised,
\* and it returns only if no pair with a non-zero count is mislabelled.
C2_RaiseIffNonzeroMismatch ==
    /\ offset_ev.op \in {"absent", "present", "raise"} =>
          ((offset_ev.op = "raise")
             <=> (/\ Hdr(OffsetBlock).ncache # 0
                  /\ Hdr(OffsetBlock).ilevel # offset_ev.lev + 1))
    /\ (pc = "raised") <=> fault.raised
    /\ (pc = "raised") => offset_ev.op = "raise"
    /\ (pc = "offset_done") =>
          \A blk \in Blocks : Hdr(blk).ncache # 0 => Hdr(blk).ilevel = blk[1] + 1

\* a mislabelled pair with a non-zero record count was visited and the fault raised
C2_Witness ==
    /\ pc = "raised"
    /\ Hdr(OffsetBlock).ncache # 0
    /\ Hdr(OffsetBlock).ilevel # offset_ev.lev + 1

\* C3: read_offset then fill_hydro on a well-formed data section: no read or
\* seek fails; a pair is skipped only if it declares no record; for a decoded
\* pair the offset and count used are those of the pair, and for every
\* sub-cell i and every requested field of on-disk index k one vector was read at
\* offset + (i * len(all_fields) + k) records, it is record i * len(all_fields) + k
\* of that pair, and the buffer column it was read into holds its values.
C3_DecodesInjectedValues ==
    /\ pc # "io_fault"
    /\ fill_ev.op = "skip" => Hdr(FillBlock).ncache = 0
    /\ fill_ev.op = "block" =>
          /\ fill_ev.off = PayloadStart(FillBlock)
          /\ fill_ev.nc = Hdr(FillBlock).ncache
          /\ \A i \in 0 .. (twotondim - 1) : \A f \in Range(fields) :
                \E n \in DOMAIN fill_ev.reads :
                    /\ fill_ev.reads[n].i = i
                    /\ fill_ev.reads[n].pos
                         = fill_ev.off + (i * Len(Catalogue) + CatIndex(f))
                                           * VectorRecordSize(fill_ev.nc)
                    /\ fill_ev.reads[n].blk = FillBlock
                    /\ fill_ev.reads[n].rec = i * Len(Catalogue) + CatIndex(f)
                    /\ \A c \in 0 .. (fill_ev.nc - 1) :
                          buffer[<<i, fill_ev.reads[n].j>>][c]
                             = DiskValue(FillBlock, i * Len(Catalogue) + CatIndex(f), c)

\* a pair of two records per vector was decoded with a skipped leading field
\* and a skipped field between two requested ones
C3_Witness ==
    /\ fill_ev.op = "block"
    /\ fill_ev.nc = 2
    /\ fields = <<"c", "a">>
    /\ fill_ev.lev + min_level > 0

\* C4: the running and returned max_level is at most nlevelmax - min_level and
\* equals the largest level - min_level among the add calls that returned
\* n > 0 (0 when there is none); calls that returned 0 and pairs below min_level do not
\* count.
C4_MaxLevelIsDeepestAdded ==
    pc \in {"read_amr", "amr_done"} =>
        /\ max_level <= nlevelmax - min_level
        /\ max_level = SetMax({0} \cup {adds[k].level : k \in {m \in DOMAIN adds : adds[m].positive}})
        /\ \A k \in DOMAIN adds : adds[k].level >= 0

\* read_amr returned a depth below the level of a call that added nothing
C4_Witness ==
    /\ pc = "amr_done"
    /\ \E k \in DOMAIN adds : adds[k].positive
    /\ \E k \in DOMAIN adds : ~adds[k].positive /\ adds[k].level > max_level

\* C5: an iteration of read_amr over a pair whose grid count is zero skips no
\* record, reads no vector, leaves the file cursor where it was and does not
\* call add; an iteration over a pair with grids does consume records.
C5_EmptyPairConsumesNothing ==
    amr_ev.op # "none" =>
        IF GridCount(amr_ev.lev, amr_ev.dom) = 0
        THEN /\ amr_ev.op = "empty"
             /\ amr_ev.skipped = 0
             /\ amr_ev.vectors = 0
             /\ ~amr_ev.add_called
             /\ arec = amr_ev.rec0
             /\ arec = AmrBlockFirst(AmrBlock)
        ELSE /\ amr_ev.op = "block"
             /\ arec = AmrBlockEnd(AmrBlock)

\* an empty pair of a ghost domain was visited after a pair with grids
C5_Witness ==
    /\ amr_ev.op = "empty"
    /\ amr_ev.dom >= ncpu
    /\ arec > 0

\* C6: a present pair below min_level writes no table entry and the cursor is
\* advanced to the end of its payload; every entry of the tables that is not
\* the sentinel belongs to the pair (column + min_level, domain), which is
\* present, and holds the position of its payload and its record count.
C6_BelowMinLevelNotRecorded ==
    /\ (offset_ev.op = "present" /\ offset_ev.lev < min_level) =>
          /\ offset_ev.wrote = {}
          /\ fpos = PayloadEnd(OffsetBlock)
          /\ fpos > offset_ev.pos0 + 2 * IntRecordSize
    /\ pc \in {"read_offset", "offset_done", "raised"} =>
          \A key \in DOMAIN offset :
              (offset[key] # -1 \/ level_count[key] # 0) =>
                  /\ key[2] >= 0
                  /\ Hdr(<<key[2] + min_level, key[1]>>).ncache # 0
                  /\ offset[key] = PayloadStart(<<key[2] + min_level, key[1]>>)
                  /\ level_count[key] = Hdr(<<key[2] + min_level, key[1]>>).ncache

\* a present pair below min_level was passed over
C6_Witness ==
    /\ offset_ev.op = "present"
    /\ offset_ev.lev < min_level
    /\ offset_ev.file_ncache = 2
    /\ fpos = PayloadEnd(OffsetBlock)

\* C7: in every state of the loop of read_offset and in the returned tables an
\* entry has offset # -1 exactly when its record count is not 0, and an
\* iteration that writes an entry writes both tables.
C7_OffsetValidIffCount ==
    pc \in {"read_offset", "offset_done", "raised"} =>
        /\ DOMAIN offset = DOMAIN level_count
        /\ \A key \in DOMAIN offset : (offset[key] # -1) <=> (level_count[key] # 0)
        /\ offset_ev.op = "present" =>
              \A key \in offset_ev.wrote :
                  /\ offset[key] = offset_ev.pos0 + 2 * IntRecordSize
                  /\ level_count[key] = offset_ev.file_ncache

\* the returned tables hold a written entry and a sentinel entry
C7_Witness ==
    /\ pc = "offset_done"
    /\ \E key \in DOMAIN offset : offset[key] # -1 /\ level_count[key] # 0
    /\ \E key \in DOMAIN offset : offset[key] = -1 /\ level_count[key] = 0

\* the calls that handed the pair (column lev, domain dom)
CallsOf(lev, dom) == {k \in DOMAIN calls : calls[k].level = lev /\ calls[k].dom = dom}

C9_UnrequestedFieldNotRead ==
    /\ pc \in {"fill_hydro", "fill_done"} =>
          DOMAIN buffer = (0 .. (twotondim - 1)) \X (0 .. (Len(fields) - 1))
    /\ fill_ev.op = "block" =>
          /\ Len(fill_ev.reads) = twotondim * Len(fields)
          /\ \A n \in DOMAIN fill_ev.reads :
                Catalogue[(fill_ev.reads[n].rec % Len(Catalogue)) + 1] \in Range(fields)

\* a pair was decoded for a single requested field out of three
C9_Witness ==
    /\ fill_ev.op = "block"
    /\ fields = <<"b">>
    /\ Len(fill_ev.reads) = twotondim

\* C10: when the fault is raised the pass is over and the fault carries the
\* file's name, the declared level id read and the expected level id
\* current_level + 1.
C10_FaultCarriesExpectedLevel ==
    pc = "raised" =>
        /\ fault.name = FileName
        /\ fault.level_read = Hdr(OffsetBlock).ilevel
        /\ fault.expected = offset_ev.lev + 1

\* on-disk positions (1-based) of the requested fields
ReqPositions == {k \in DOMAIN Catalogue : Catalogue[k] \in Range(fields)}
\* on-disk position of the j-th requested field in on-disk order (j from 0);
\* 0 for j = -1
ReqPosition(j) ==
    IF j < 0 THEN 0
    ELSE CHOOSE k \in ReqPositions : Cardinality({m \in ReqPositions : m < k}) = j
\* jumps[0] + ... + jumps[n]
JumpSum(n) ==
    LET S[k \in 0 .. n] == IF k = 0 THEN jumps[0] ELSE S[k - 1] + jumps[k]
    IN S[n]

\* C11: the jump table has len(fields) + 1 entries; entry j is the number of
\* consecutive unrequested fields right before the j-th requested field in
\* on-disk order, the last entry is the number of unrequested fields after
\* the last requested one, and the entries plus the number of requested
\* fields add up to len(all_fields) (fields a duplicate-free subset).
C11_JumpTableShape ==
    pc \in {"fill_hydro", "fill_done"} =>
        /\ DOMAIN jumps = 0 .. Len(fields)
        /\ \A j \in 0 .. (Len(fields) - 1) :
              jumps[j] = ReqPosition(j) - ReqPosition(j - 1) - 1
        /\ jumps[Len(fields)] = Len(Catalogue) - ReqPosition(Len(fields) - 1)
        /\ JumpSum(Len(fields)) + Len(fields) = Len(Catalogue)

\* the table was built for the middle field of three, requested alone
C11_Witness ==
    /\ pc = "fill_hydro"
    /\ fields = <<"b">>
    /\ jumps[0] = 1
    /\ jumps[1] = 1

\* the pairs read_amr has visited: those before (ilevel, icpu) in loop order
AmrVisited ==
    {blk \in Blocks : blk[1] < ilevel \/ (blk[1] = ilevel /\ blk[2] < icpu)}
\* the pair an add call was made for
AddBlock(k) == <<adds[k].level + min_level, adds[k].domain - 1>>

\* C12: an iteration of read_amr over a pair with ng > 0 grids skips 3 records,
\* reads the pair's 3 coordinate vectors and skips 1 + 2 ndim + 3 2^ndim
\* records, in this order, whatever the level; add is called once for every
\* such pair at level >= min_level, with domain index + 1, level - min_level
\* and the ng positions shifted by the half-extent, and never for a pair
\* below min_level.
C12_GridBlockConsumption ==
    /\ pc # "io_fault"
    /\ amr_ev.op = "block" =>
          /\ amr_ev.ng > 0
          /\ Len(amr_ev.ops) = 5
          /\ amr_ev.ops[1] = [op |-> "skip", n |-> 3]
          /\ \A a \in 0 .. 2 :
                /\ amr_ev.ops[2 + a].op = "read_vector"
                /\ CoordsAt(amr_ev.ops[2 + a].n) = {<<AmrBlock, a>>}
          /\ amr_ev.ops[5] = [op |-> "skip", n |-> 1 + 2 * ndim + 3 * (2 ^ ndim)]
          /\ amr_ev.add_called <=> (amr_ev.lev >= min_level)
          /\ amr_ev.add_called =>
                /\ adds # <<>>
                /\ AddBlock(Len(adds)) = AmrBlock
    /\ pc \in {"read_amr", "amr_done"} =>
          /\ \A k \in DOMAIN adds :
                /\ AddBlock(k) \in AmrVisited
                /\ AddBlock(k)[1] >= min_level
                /\ adds[k].ng = GridCount(AddBlock(k)[1], AddBlock(k)[2])
                /\ adds[k].ng > 0
                /\ DOMAIN adds[k].pos = 0 .. (adds[k].ng - 1)
                /\ \A g \in DOMAIN adds[k].pos : \A a \in 0 .. 2 :
                      adds[k].pos[g][a] = DiskCoord(AddBlock(k), a, g) - HalfExtent(a)
                /\ \A m \in DOMAIN adds : AddBlock(m) = AddBlock(k) => m = k
          /\ \A blk \in AmrVisited :
                (GridCount(blk[1], blk[2]) > 0 /\ blk[1] >= min_level) =>
                    \E k \in DOMAIN adds : AddBlock(k) = blk

\* a pair with two grids below min_level was consumed without an add call,
\* after a pair of the same level that has grids too
C12_Witness ==
    /\ amr_ev.op = "block"
    /\ amr_ev.lev < min_level
    /\ amr_ev.ng = 2
    /\ amr_ev.dom > 0
    /\ amr_ev.rec0 > 0
    /\ ~amr_ev.add_called

\* C13: the distance by which read_offset moves the cursor past a present
\* pair's payload is exactly n_skip * (8 * record_count + 8) bytes, that is
\* n_skip * (record_count + 1) units of 8 bytes, with n_skip = 2^ndim * n_vars
\* for the sentinel -1; it is never wrapped or negative, also for payloads of
\* more than 2^31 - 1 bytes.
C13_SeekLengthExact ==
    offset_ev.op = "seek" =>
        /\ offset_ev.whence = 1
        /\ offset_ev.units >= 0
        /\ offset_ev.units =
              (IF offset_ev.NskipArg = -1 THEN (2 ^ ndim) * nvar ELSE offset_ev.NskipArg)
                 * (offset_ev.file_ncache + 1)

\* the table entry the next fill_hydro iteration looks at
FillKey == <<cpu_list[icpu + 1], ilevel>>

\* C14: an iteration of fill_hydro over a pair whose record count is 0 or
\* whose offset is -1 issues no seek and no read, makes no fill_level or
\* fill_level_with_domain call and leaves the cursor, the decode buffer and
\* the aliases as they were.
C14_AbsentBlockNoEffect ==
    [][(pc = "fill_hydro" /\ (level_count[FillKey] = 0 \/ offset[FillKey] = -1)) =>
          /\ fpos' = fpos
          /\ buffer' = buffer
          /\ tmp' = tmp
          /\ calls' = calls
          /\ fill_ev'.op = "skip"
          /\ fill_ev'.seeks = <<>>
          /\ fill_ev'.reads = <<>>]_vars

\* an absent pair was passed over after another pair had been decoded
C14_Witness ==
    /\ fill_ev.op = "skip"
    /\ fill_ev.nc = 0
    /\ fill_ev.off = -1
    /\ calls # <<>>
    /\ fpos = fill_ev.pos0
    /\ fpos > 0

\* C15: decoding a present pair issues one absolute seek, the first operation,
\* to offset + skip_len(jumps[0], record_count), and the first read is at that
\* position; every other seek is relative with a distance > 0; the skip
\* accumulated before a read is never negative and a seek is issued exactly
\* for the reads where it is positive; with every catalogue field requested
\* there is no relative seek.
C15_SeekDiscipline ==
    fill_ev.op = "block" =>
        /\ fill_ev.seeks # <<>>
        /\ fill_ev.seeks[1] =
              [arg |-> fill_ev.off + skip_len(jumps[0], fill_ev.nc), whence |-> 0]
        /\ fill_ev.reads[1].pos = fill_ev.seeks[1].arg
        /\ \A k \in 2 .. Len(fill_ev.seeks) :
              /\ fill_ev.seeks[k].whence = 1
              /\ fill_ev.seeks[k].arg > 0
        /\ \A n \in DOMAIN fill_ev.reads : fill_ev.reads[n].jump_len >= 0
        /\ Len(fill_ev.seeks) - 1 =
              Cardinality({n \in DOMAIN fill_ev.reads : fill_ev.reads[n].jump_len > 0})
        /\ Len(fields) = Len(Catalogue) => Len(fill_ev.seeks) = 1

\* a pair was decoded for the last field only: leading fields skipped by the
\* absolute seek, one relative seek per further sub-cell
C15_Witness ==
    /\ fill_ev.op = "block"
    /\ fields = <<"c">>
    /\ fill_ev.seeks[1].arg > fill_ev.off
    /\ Len(fill_ev.seeks) = twotondim

\* C16: an iteration of read_offset over a pair that declares a record count
\* of 0 reads the two header integers and nothing else: it issues no seek,
\* writes no table entry, and leaves the cursor right after the two integers,
\* where the next iteration reads; a pass that returns has read two integers
\* for each of the nlevelmax * (ncpu + nboundary) pairs.
C16_AbsentBlockHeaderOnly ==
    /\ (/\ pc \in {"read_offset", "offset_done", "raised"}
        /\ offset_ev.op \in {"absent", "present", "raise"}
        /\ Hdr(OffsetBlock).ncache = 0) =>
          /\ offset_ev.op = "absent"
          /\ offset_ev.ints = 2
          /\ offset_ev.seeks = <<>>
          /\ offset_ev.wrote = {}
          /\ fpos = offset_ev.pos0 + 2 * IntRecordSize
          /\ fpos = PayloadStart(OffsetBlock)
          /\ pc = "read_offset" => fpos = BlockStart(<<ilevel, icpu>>)
          /\ \A key \in DOMAIN offset :
                (key[1] = offset_ev.dom /\ key[2] + min_level = offset_ev.lev) =>
                    (offset[key] = -1 /\ level_count[key] = 0)
    /\ pc = "offset_done" => ints_read = 2 * nlevelmax * (ncpu + nboundary)

\* read_offset returned after a pass whose last pair was absent and whose
\* tables hold a present pair
C16_Witness ==
    /\ pc = "offset_done"
    /\ offset_ev.op = "absent"
    /\ ncpu + nboundary = 2
    /\ ints_read = 8
    /\ \E key \in DOMAIN offset : offset[key] # -1

\* C17 as stated: every row of every slice handed for a pair holds a value
\* decoded from that pair, also the rows beyond the pair's record count.
C17_SliceOnlyThisBlock ==
    fill_ev.op = "block" =>
        \A f \in DOMAIN tmp : \A i \in 0 .. (twotondim - 1) :
            \A c \in DOMAIN buffer[<<i, tmp[f]>>] :
                /\ buffer[<<i, tmp[f]>>][c][1] = FillBlock[1]
                /\ buffer[<<i, tmp[f]>>][c][2] = FillBlock[2]

\* C17 amended: the slices handed for a pair span the whole decode buffer
\* (level_count.max() rows); their rows 0 .. record_count - 1 hold values
\* decoded from that pair, and their rows from record_count on are left as
\* they were before the pair was decoded (values of an earlier pair or
\* uninitialised memory).
C17_RowsBelowCountFromBlock ==
    [][(pc = "fill_hydro" /\ fill_ev'.op = "block") =>
          /\ DOMAIN buffer' = DOMAIN buffer
          /\ \A f \in DOMAIN tmp' : \A i \in 0 .. (twotondim - 1) :
                /\ <<i, tmp'[f]>> \in DOMAIN buffer'
                /\ DOMAIN buffer'[<<i, tmp'[f]>>] = 0 .. (LevelCountMax - 1)
                /\ \A c \in DOMAIN buffer'[<<i, tmp'[f]>>] :
                      IF c < fill_ev'.nc
                      THEN /\ buffer'[<<i, tmp'[f]>>][c][1] = fill_ev'.lev + min_level
                           /\ buffer'[<<i, tmp'[f]>>][c][2] = fill_ev'.dom
                           /\ buffer'[<<i, tmp'[f]>>][c][4] = c
                      ELSE buffer'[<<i, tmp'[f]>>][c] = buffer[<<i, tmp'[f]>>][c]]_vars

\* a pair with fewer records than the largest count was handed after another
\* pair, with a row beyond its count that holds a value of that other pair
C17_Witness ==
    /\ fill_ev.op = "block"
    /\ Len(calls) >= 2
    /\ fill_ev.nc < LevelCountMax
    /\ \E x \in DOMAIN buffer :
          /\ buffer[x][fill_ev.nc][4] = fill_ev.nc
          /\ <<buffer[x][fill_ev.nc][1], buffer[x][fill_ev.nc][2]>> # FillBlock

====
